---- MODULE Spec2Model ----
(***************************************************************************)
(* eos-midi-bridge: the MIDI <-> OSC translation engine of                 *)
(* src/src/midi_osc_logic.rs, the pitch-bend codec and mapping table of    *)
(* src/src/config.rs and the start/stop switch of src/src/main.rs.         *)
(*                                                                         *)
(* Strings are sequences of one-character strings, so that starts_with,    *)
(* contains, split, trim and the byte slice of send_mcu_label are computed *)
(* character by character.  An f32 is the exact rational num/den.          *)
(***************************************************************************)
EXTENDS Integers, Sequences, FiniteSets, TLC

----------------------------------------------------------------------------
(* Strings                                                                 *)

(* Printable ASCII, code 32 first; three characters go by name. *)
AsciiChars ==
  << " ", "!", "QUOTE", "#", "$", "%", "&", "'", "(", ")", "*", "+", ",", "-", ".", "/",
     "0", "1", "2", "3", "4", "5", "6", "7", "8", "9", ":", ";", "<", "=", ">", "?",
     "@", "A", "B", "C", "D", "E", "F", "G", "H", "I", "J", "K", "L", "M", "N", "O",
     "P", "Q", "R", "S", "T", "U", "V", "W", "X", "Y", "Z", "[", "BACKSLASH", "]", "^", "_",
     "BACKTICK", "a", "b", "c", "d", "e", "f", "g", "h", "i", "j", "k", "l", "m", "n", "o",
     "p", "q", "r", "s", "t", "u", "v", "w", "x", "y", "z", "{", "|", "}", "~" >>

Ord(c) == 31 + (CHOOSE i \in 1..Len(AsciiChars) : AsciiChars[i] = c)

(* str::as_bytes for one character: "E_ACUTE" stands for U+00E9, two bytes. *)
Utf8(c) == IF c = "E_ACUTE" THEN <<195, 169>> ELSE <<Ord(c)>>

RECURSIVE as_bytes(_)
as_bytes(s) == IF s = <<>> THEN <<>> ELSE Utf8(Head(s)) \o as_bytes(Tail(s))

(* str::starts_with *)
starts_with(s, p) == Len(p) <= Len(s) /\ SubSeq(s, 1, Len(p)) = p

(* str::contains *)
contains(s, p) == \E i \in 0..(Len(s) - Len(p)) : SubSeq(s, i + 1, i + Len(p)) = p

(* str::split(ch).collect(): the pieces between the separators, in order. *)
RECURSIVE split(_, _)
split(s, ch) ==
  IF \A i \in 1..Len(s) : s[i] # ch
  THEN <<s>>
  ELSE LET k == CHOOSE i \in 1..Len(s) : s[i] = ch /\ \A j \in 1..(i - 1) : s[j] # ch
       IN  <<SubSeq(s, 1, k - 1)>> \o split(SubSeq(s, k + 1, Len(s)), ch)

WhiteSpace == {" ", "\t"}

(* str::trim *)
RECURSIVE trim_start(_)
trim_start(s) == IF s # <<>> /\ Head(s) \in WhiteSpace THEN trim_start(Tail(s)) ELSE s

RECURSIVE trim_end(_)
trim_end(s) ==
  IF s # <<>> /\ s[Len(s)] \in WhiteSpace THEN trim_end(SubSeq(s, 1, Len(s) - 1)) ELSE s

trim(s) == trim_end(trim_start(s))

Digits == <<"0", "1", "2", "3", "4", "5", "6", "7", "8", "9">>

DigitValue(c) == (CHOOSE i \in 1..10 : Digits[i] = c) - 1

IsDigit(c) == \E i \in 1..10 : Digits[i] = c

RECURSIVE ParseDigits(_, _)
ParseDigits(s, acc) ==
  IF s = <<>> THEN acc
  ELSE IF ~IsDigit(Head(s)) THEN -1
  ELSE LET v == acc * 10 + DigitValue(Head(s))
       IN  IF v > 255 THEN -1 ELSE ParseDigits(Tail(s), v)

(* str::parse::<u8>: an optional '+', then at least one digit, value <= 255. *)
(* -1 stands for Err.                                                      *)
parse_u8(s) ==
  LET body == IF s # <<>> /\ Head(s) = "+" THEN Tail(s) ELSE s
  IN  IF body = <<>> THEN -1 ELSE ParseDigits(body, 0)

RECURSIVE Spaces(_)
Spaces(n) == IF n <= 0 THEN <<>> ELSE <<" ">> \o Spaces(n - 1)

(* format!("{: ^7}", s): centred in a field of 7 characters, the odd space *)
(* on the right; a string of 7 characters or more is left as it is.        *)
center7(s) ==
  LET pad == 7 - Len(s)
  IN  IF pad <= 0 THEN s
      ELSE Spaces(pad \div 2) \o s \o Spaces(pad - (pad \div 2))

----------------------------------------------------------------------------
(* Unsigned 8-bit arithmetic and the pitch-bend codec                      *)

RECURSIVE BitOr(_, _)
BitOr(a, b) ==
  IF a = 0 THEN b
  ELSE IF b = 0 THEN a
  ELSE (IF (a % 2) + (b % 2) > 0 THEN 1 ELSE 0) + 2 * BitOr(a \div 2, b \div 2)

(* The value is not held below 1. *)
clamp01_below(f) ==
  IF f.num < 0 THEN [num |-> 0, den |-> 1]
  ELSE f

(* f32::clamp(0.0, 1.0) on the rational num/den; den = 0 stands for the    *)
(* infinities (num # 0) and for NaN (num = 0), which clamp leaves as it is. *)
clamp01(f) ==
  IF f.num < 0 THEN [num |-> 0, den |-> 1]
  ELSE IF f.num > f.den THEN [num |-> 1, den |-> 1]
  ELSE f

(* The scale is 2^14. *)
float_to_pitch_bend_16384(f) ==
  LET c == clamp01(f)
  IN  IF c.den = 0 THEN 0
      ELSE ((2 * c.num * 16384 + c.den) \div (2 * c.den)) % 65536

(* config.rs float_to_pitch_bend: clamp, scale by 16383, round half away   *)
(* from zero, cast to u16 (NaN casts to 0).                                *)
float_to_pitch_bend(f) ==
  LET c == clamp01(f)
  IN  IF c.den = 0 THEN 0
      ELSE ((2 * c.num * 16383 + c.den) \div (2 * c.den)) % 65536

----------------------------------------------------------------------------
(* Configuration: config.rs                                                *)

MidiEventType == {"PitchBend", "NoteOn", "ControlChange"}

(* Option<f32>: <<>> is None, <<f>> is Some(f). *)
MidiOscMapping(et, dn, addr, fixed) ==
  [event_type |-> et, data_number |-> dn, osc_address |-> addr, fixed_osc_value |-> fixed]

One == [num |-> 1, den |-> 1]

EosFaderPrefix == <<"/", "e", "o", "s", "/", "f", "a", "d", "e", "r", "/", "1", "/">>

(* Config::default: faders 1..9 on pitch bend, then the two bank buttons. *)
DefaultMappings ==
  [i \in 1..9 |-> MidiOscMapping("PitchBend", i, EosFaderPrefix \o <<Digits[i + 1]>>, <<>>)]
    \o << MidiOscMapping("NoteOn", 46, <<"/", "e", "o", "s", "/", "f", "a", "d", "e", "r", "/", "1", "/", "p", "a", "g", "e", "/", "-", "1">>, <<One>>),
          MidiOscMapping("NoteOn", 47, <<"/", "e", "o", "s", "/", "f", "a", "d", "e", "r", "/", "1", "/", "p", "a", "g", "e", "/", "+", "1">>, <<One>>) >>

(* A table a user may have saved: a duplicated key whose second address    *)
(* extends the first, a control change numbered 0, a note without a fixed  *)
(* value, and a pitch bend on the last slot of the touch array.            *)
CustomMappings ==
  << MidiOscMapping("PitchBend", 3, <<"/", "a">>, <<>>),
     MidiOscMapping("PitchBend", 3, <<"/", "a", "b">>, <<>>),
     MidiOscMapping("ControlChange", 0, <<"/", "c">>, <<>>),
     MidiOscMapping("NoteOn", 46, <<"/", "n">>, <<>>),
     MidiOscMapping("PitchBend", 12, <<"/", "m">>, <<>>) >>

Configs == {DefaultMappings, CustomMappings}

----------------------------------------------------------------------------
(* OSC packets and bridge events                                           *)

(* An f32 is held as the exact rational num/den. *)
Float(f) == [t |-> "Float", f |-> f, s |-> <<>>]

String(s) == [t |-> "String", f |-> [num |-> 0, den |-> 1], s |-> s]

OscMessage(addr, args) == [kind |-> "Message", addr |-> addr, args |-> args]

OscBundle(content) == [kind |-> "Bundle", content |-> content]

FaderUpdate(idx, f) == [tag |-> "FaderUpdate", idx |-> idx, f |-> f]

LabelUpdate(idx, text) == [tag |-> "LabelUpdate", idx |-> idx, text |-> text]

MidiCaptured(et, dn, raw) == [tag |-> "MidiCaptured", etype |-> et, dnum |-> dn, raw |-> raw]

ConnectionHeartbeat == [tag |-> "ConnectionHeartbeat"]

----------------------------------------------------------------------------
(* State                                                                   *)

VARIABLES
  overflow_checks, \* build profile: TRUE when u8 overflow panics, FALSE when it wraps
  cfg,             \* Config.mappings of the session, read-only
  selected_in,     \* EosBridge.selected_in.is_some()
  selected_out,    \* EosBridge.selected_out.is_some()
  is_running,      \* EosBridge.is_running
  bridge,          \* the subscription future: "idle", "running" or "panicked"
  n_sessions,      \* futures started so far
  hb,              \* the spawned sync tasks, oldest first: [pc, pings, sent]
  touched,         \* touched_faders: [bool; 13]
  lock,            \* the Mutex around it: "free", its holder "midi" or "rx", or "poisoned"
  output,          \* the event channel: [open, q, parked]
  net,             \* datagrams waiting on recv_socket, oldest first
  n_dgram,         \* datagrams the console has sent
  n_recv,          \* datagrams recv_from has returned
  rx_pc,           \* position of the OSC Rx loop
  rx_stack,        \* packets process_packet still has to visit, next first
  cb_pc,           \* position of the MIDI input callback
  midi_in,         \* the callback's invocations: [msg, captured, osc]
  rx_in            \* the Rx loop's datagrams and leaf messages, in order:
                   \* [dgram, msg, touched, midi, events]

vars ==
  << overflow_checks, cfg, selected_in, selected_out, is_running, bridge, n_sessions, hb,
     touched, lock, output, net, n_dgram, n_recv, rx_pc, rx_stack, cb_pc, midi_in,
     rx_in >>

(* [false; 13] *)
TouchSlots == 13

(* Size of the buffer of iced::subscription::channel; the code passes 100. *)
ChannelSize == 2

MaxSessions == 2

MaxPings == 1

MaxDatagrams == 2

MaxMidi == 2

(* Messages per input stream where the inputs come from the wide sets. *)
MaxInputs == 1

(* Nesting depth of the bundles of SpecBundle. *)
MaxDepth == 2

(* Largest denominator of the floats given to float_to_pitch_bend. *)
MaxDen == 4

----------------------------------------------------------------------------
(* The event channel (futures mpsc, bounded): a sender that pushes the     *)
(* queue past the buffer is parked until the receiver has taken a message; *)
(* a parked sender cannot send.                                            *)

NewChannel == [open |-> TRUE, q |-> <<>>, parked |-> <<>>]

ClosedChannel == [open |-> FALSE, q |-> <<>>, parked |-> <<>>]

IsParked(ch, s) == \E i \in 1..Len(ch.parked) : ch.parked[i] = s

(* Sender::try_send succeeds, Sender::send completes without waiting. *)
CanSend(ch, s) == ch.open /\ ~IsParked(ch, s)

Push(ch, s, ev) ==
  [ch EXCEPT !.q = Append(@, ev),
             !.parked = IF Len(ch.q) + 1 > ChannelSize THEN Append(@, s) ELSE @]

(* Receiver: take the oldest message and wake the sender parked longest. *)
Pop(ch) ==
  [ch EXCEPT !.q = Tail(@), !.parked = IF @ = <<>> THEN @ ELSE Tail(@)]

(* The event is queued whatever the state of the channel. *)
try_send_queues(ch, s, ev) == Push(ch, s, ev)

(* Sender::try_send (line 134): the channel is left as it is where it      *)
(* refuses the event.                                                      *)
try_send(ch, s, ev) == IF CanSend(ch, s) THEN Push(ch, s, ev) ELSE ch

----------------------------------------------------------------------------
(* MIDI input callback: midi_osc_logic.rs 106-169                          *)

Status(msg) == (msg[1] \div 16) * 16

(* The range check misses the first touch note. *)
TouchSlot_above104(note) ==
  IF note > 104 /\ note <= 111 THEN note - 103
  ELSE IF note = 112 THEN 9
  ELSE 0

(* The slot a touch note writes; 0 when the note is no touch note. *)
TouchSlot(note) ==
  IF note >= 104 /\ note <= 111 THEN note - 103
  ELSE IF note = 112 THEN 9
  ELSE 0

(* Any note on counts as a touch. *)
is_touch_any_velocity(msg) == Status(msg) = 144

is_touch(msg) == Status(msg) = 144 /\ msg[3] > 0

(* Lines 113-124: the array after the callback has seen msg. *)
TouchAfter(t, msg) ==
  IF Status(msg) \in {144, 128} /\ TouchSlot(msg[2]) # 0
  THEN [t EXCEPT ![TouchSlot(msg[2])] = is_touch(msg)]
  ELSE t

(* Polyphonic aftertouch classified like note on. *)
Classify_aftertouch(msg) ==
  CASE Status(msg) = 224 -> <<"PitchBend", (msg[1] % 16) + 1>>
    [] Status(msg) \in {144, 160} -> <<"NoteOn", msg[2]>>
    [] Status(msg) = 176 -> <<"ControlChange", msg[2]>>
    [] OTHER -> <<>>

(* Note off classified like note on. *)
Classify_note_off(msg) ==
  CASE Status(msg) = 224 -> <<"PitchBend", (msg[1] % 16) + 1>>
    [] Status(msg) \in {144, 128} -> <<"NoteOn", msg[2]>>
    [] Status(msg) = 176 -> <<"ControlChange", msg[2]>>
    [] OTHER -> <<>>

(* Lines 126-131: <<etype, dnum>>, or <<>> where the callback returns. *)
Classify(msg) ==
  CASE Status(msg) = 224 -> <<"PitchBend", (msg[1] % 16) + 1>>
    [] Status(msg) = 144 -> <<"NoteOn", msg[2]>>
    [] Status(msg) = 176 -> <<"ControlChange", msg[2]>>
    [] OTHER -> <<>>

(* The last mapping with this key instead of the first. *)
resolve_control_last(mappings, etype, dnum) ==
  LET hit(i) == mappings[i].event_type = etype /\ mappings[i].data_number = dnum
  IN  IF \E i \in 1..Len(mappings) : hit(i)
      THEN CHOOSE i \in 1..Len(mappings) : hit(i) /\ \A j \in (i + 1)..Len(mappings) : ~hit(j)
      ELSE 0

(* Lines 140-143: position of the first mapping with this key, 0 for None. *)
resolve_control(mappings, etype, dnum) ==
  LET hit(i) == mappings[i].event_type = etype /\ mappings[i].data_number = dnum
  IN  IF \E i \in 1..Len(mappings) : hit(i)
      THEN CHOOSE i \in 1..Len(mappings) : hit(i) /\ \A j \in 1..(i - 1) : ~hit(j)
      ELSE 0

(* A note on sends its velocity. *)
ControlArgs_velocity(m, etype, msg) ==
  CASE etype = "PitchBend" -> <<Float([num |-> msg[3] * 128 + msg[2], den |-> 16383])>>
    [] etype = "ControlChange" -> <<Float([num |-> msg[3], den |-> 127])>>
    [] etype = "NoteOn" -> <<Float([num |-> msg[3], den |-> 127])>>

(* Lines 145-160: the arguments of the outgoing OSC message. *)
ControlArgs(m, etype, msg) ==
  CASE etype = "PitchBend" -> <<Float([num |-> msg[3] * 128 + msg[2], den |-> 16383])>>
    [] etype = "ControlChange" -> <<Float([num |-> msg[3], den |-> 127])>>
    [] etype = "NoteOn" ->
         IF m.fixed_osc_value # <<>> THEN <<Float(m.fixed_osc_value[1])>> ELSE <<>>

(* Messages the driver delivers. *)
MidiMessages ==
  { <<144, 104, 127>>, <<128, 104, 0>>, <<144, 104, 0>>, <<145, 111, 64>>,
    <<144, 112, 1>>, <<128, 112, 64>>, <<144, 103, 127>>, <<144, 113, 127>>,
    <<144, 46, 127>>, <<128, 46, 0>>, <<144, 60, 100>>,
    <<226, 127, 127>>, <<224, 0, 64>>, <<239, 1, 2>>,
    <<176, 0, 127>>, <<176, 7, 100>>,
    <<160, 104, 1>>, <<248>>, <<144, 104>> }

CurrentMidi == midi_in[Len(midi_in)].msg

(* The position of the callback after the touch update: lines 126-131. *)
after_update(msg) == IF Classify(msg) = <<>> THEN "idle" ELSE "capture"

(* Invocation, lines 107-113: length check and status. *)
MidiIn(msg) ==
  /\ bridge = "running"
  /\ cb_pc = "idle"
  /\ Len(midi_in) < MaxMidi
  /\ midi_in' = Append(midi_in, [msg |-> msg, captured |-> <<>>, osc |-> <<>>])
  /\ cb_pc' = IF Len(msg) < 3 THEN "idle"
              ELSE IF Status(msg) \in {144, 128} THEN "lock"
              ELSE after_update(msg)
  /\ UNCHANGED << lock, overflow_checks, cfg, selected_in, selected_out, is_running, bridge,
                  n_sessions, hb, touched, output, net, n_dgram, n_recv, rx_pc, rx_stack,
                  rx_in >>

(* The guard is kept after the block. *)
drop_guard_kept(holder) == holder

(* Lines 123 and 234: the MutexGuard goes out of scope at the end of the   *)
(* block that locked. *)
drop_guard(holder) == "free"

(* Line 116: touched_faders_cb.lock(); it waits while the Rx loop holds    *)
(* the lock and returns Err, skipping the update, where it is poisoned.    *)
MidiLock ==
  /\ cb_pc = "lock"
  /\ lock \in {"free", "poisoned"}
  /\ IF lock = "free"
     THEN lock' = "midi" /\ cb_pc' = "write"
     ELSE lock' = lock /\ cb_pc' = after_update(CurrentMidi)
  /\ UNCHANGED << overflow_checks, cfg, selected_in, selected_out, is_running, bridge,
                  n_sessions, hb, touched, output, net, n_dgram, n_recv, rx_pc, rx_stack,
                  midi_in, rx_in >>

(* Lines 117-123: the write of the slot under the lock. *)
MidiTouch ==
  /\ cb_pc = "write"
  /\ touched' = TouchAfter(touched, CurrentMidi)
  /\ lock' = drop_guard(lock)
  /\ cb_pc' = after_update(CurrentMidi)
  /\ UNCHANGED << overflow_checks, cfg, selected_in, selected_out, is_running, bridge,
                  n_sessions, hb, output, net, n_dgram, n_recv, rx_pc, rx_stack, midi_in,
                  rx_in >>

(* Lines 134-143: try_send of MidiCaptured, then the mapping lookup. *)
MidiCapture ==
  /\ cb_pc = "capture"
  /\ LET msg == CurrentMidi
         et  == Classify(msg)[1]
         dn  == Classify(msg)[2]
         ev  == MidiCaptured(et, dn, SubSeq(msg, 1, 3))
     IN  /\ output' = try_send(output, "midi", ev)
         /\ midi_in' = IF try_send(output, "midi", ev) # output
                       THEN [midi_in EXCEPT ![Len(midi_in)].captured = Append(@, ev)]
                       ELSE midi_in
         /\ cb_pc' = IF resolve_control(cfg, et, dn) # 0 THEN "osc" ELSE "idle"
  /\ UNCHANGED << lock, overflow_checks, cfg, selected_in, selected_out, is_running, bridge,
                  n_sessions, hb, touched, net, n_dgram, n_recv, rx_pc, rx_stack, rx_in >>

(* Lines 145-167: build the OSC message of the mapping and send it. *)
MidiOsc ==
  /\ cb_pc = "osc"
  /\ LET msg == CurrentMidi
         et  == Classify(msg)[1]
         m   == cfg[resolve_control(cfg, et, Classify(msg)[2])]
         p   == OscMessage(m.osc_address, ControlArgs(m, et, msg))
     IN  midi_in' = [midi_in EXCEPT ![Len(midi_in)].osc = Append(@, p)]
  /\ cb_pc' = "idle"
  /\ UNCHANGED << lock, overflow_checks, cfg, selected_in, selected_out, is_running, bridge,
                  n_sessions, hb, touched, output, net, n_dgram, n_recv, rx_pc, rx_stack,
                  rx_in >>

----------------------------------------------------------------------------
(* OSC -> MIDI dispatcher: midi_osc_logic.rs 19-37 and 194-251             *)

(* Line 204. *)
is_liveness(addr) ==
  starts_with(addr, <<"/", "e", "o", "s", "/", "o", "u", "t", "/", "p", "i", "n", "g">>) \/ starts_with(addr, <<"/", "e", "o", "s", "/", "o", "u", "t">>)

(* Line 208. *)
is_name(addr) == contains(addr, <<"/", "n", "a", "m", "e">>)

(* Lines 209-213: the parsed index of a name message, -1 when parts.get(4) *)
(* is missing, the first argument is no string or the parse fails.         *)
name_index(msg) ==
  LET parts == split(msg.addr, "/")
  IN  IF Len(parts) >= 5 /\ Len(msg.args) >= 1 /\ msg.args[1].t = "String"
      THEN parse_u8(parts[5])
      ELSE -1

(* An address without a match falls to the first mapping. *)
resolve_feedback_default(mappings, addr) ==
  LET hit(i) == starts_with(addr, mappings[i].osc_address)
  IN  IF \E i \in 1..Len(mappings) : hit(i)
      THEN CHOOSE i \in 1..Len(mappings) : hit(i) /\ \A j \in 1..(i - 1) : ~hit(j)
      ELSE 1

(* Lines 222-225: position of the first mapping whose address is a prefix  *)
(* of addr, 0 for None.                                                    *)
resolve_feedback(mappings, addr) ==
  LET hit(i) == starts_with(addr, mappings[i].osc_address)
  IN  IF \E i \in 1..Len(mappings) : hit(i)
      THEN CHOOSE i \in 1..Len(mappings) : hit(i) /\ \A j \in 1..(i - 1) : ~hit(j)
      ELSE 0

(* Line 227. *)
has_float(msg) == Len(msg.args) >= 1 /\ msg.args[1].t = "Float"

(* A name message without a usable index falls through to the feedback    *)
(* lookup.                                                                 *)
Branch_falls_through(mappings, msg) ==
  IF is_name(msg.addr) /\ name_index(msg) >= 0 THEN "label"
  ELSE IF resolve_feedback(mappings, msg.addr) # 0 /\ has_float(msg) THEN "touch" ELSE "next"

(* The branch of lines 208-243 a message takes once the liveness check is  *)
(* done: "label", "touch" (the lookup of lines 228-236), or "next" when     *)
(* nothing is left to do for it.                                           *)
Branch(mappings, msg) ==
  IF is_name(msg.addr)
  THEN IF name_index(msg) >= 0 THEN "label" ELSE "next"
  ELSE IF resolve_feedback(mappings, msg.addr) # 0 /\ has_float(msg) THEN "touch" ELSE "next"

(* Line 29: the text after the last ':', trimmed. *)
clean(label) ==
  LET pieces == split(label, ":")
  IN  trim(pieces[Len(pieces)])

(* Line 25: (fader_idx.saturating_sub(1)) * 7 in u8; -1 where the product  *)
(* overflows and the build checks overflow.                                *)
label_offset(fader_idx, checks) ==
  LET ch == IF fader_idx >= 1 THEN fader_idx - 1 ELSE 0
  IN  IF ch * 7 <= 255 THEN ch * 7
      ELSE IF checks THEN -1
      ELSE (ch * 7) % 256

(* Lines 30-33: the first 7 bytes of the label centred in 7 characters. *)
label_text(label) ==
  LET bytes == as_bytes(center7(clean(label)))
  IN  SubSeq(bytes, 1, IF Len(bytes) < 7 THEN Len(bytes) ELSE 7)

(* Lines 22-35: the Sysex frame; called where label_offset is not -1. *)
send_mcu_label(fader_idx, label, checks) ==
  <<240, 0, 0, 102, 20, 18>> \o <<label_offset(fader_idx, checks)>>
    \o label_text(label) \o <<247>>

(* Line 239: the pitch-bend message of the motor; the status byte is -1    *)
(* where idx - 1 overflows and the build checks overflow.                  *)
motor_status(idx, checks) ==
  IF idx >= 1 THEN BitOr(224, idx - 1)
  ELSE IF checks THEN -1
  ELSE BitOr(224, 255)

motor_message(idx, f, checks) ==
  LET pb == float_to_pitch_bend(f)
  IN  <<motor_status(idx, checks), pb % 128, (pb \div 128) % 256>>

(* The content of a bundle is put behind the packets already waiting. *)
OpenBundle_behind(stack) == Tail(stack) \o Head(stack).content

(* Lines 245-249: the packets still to visit once the bundle at the head   *)
(* has been opened.                                                        *)
OpenBundle(stack) == Head(stack).content \o Tail(stack)

Resume(stack) == IF stack = <<>> THEN "recv" ELSE "packet"

After(branch, stack) == IF branch = "next" THEN Resume(stack) ELSE branch

CurrentLeaf == rx_in[Len(rx_in)]

CurrentMessage == CurrentLeaf.msg[1]

CurrentMapping == cfg[resolve_feedback(cfg, CurrentMessage.addr)]

(* The event channel accepts ev from the Rx loop. *)
Emit(ev) ==
  /\ output' = Push(output, "rx", ev)
  /\ rx_in' = [rx_in EXCEPT ![Len(rx_in)].events = Append(@, ev)]

(* A panic in the future: the task ends, the future's sockets, channel     *)
(* receiver and MIDI connections are dropped; spawned tasks are not.       *)
Panic ==
  /\ bridge' = "panicked"
  /\ rx_pc' = "dead"
  /\ rx_stack' = <<>>
  /\ net' = <<>>
  /\ output' = ClosedChannel

RxEntry(n, msg) ==
  [dgram |-> n, msg |-> msg, touched |-> "unread", midi |-> <<>>, events |-> <<>>]

(* Line 178: recv_from returns a datagram; decode_udp of line 182 yields   *)
(* its packet, or nothing for bytes that are no OSC packet.                *)
RxRecv ==
  /\ rx_pc = "recv"
  /\ net # <<>>
  /\ net' = Tail(net)
  /\ n_recv' = n_recv + 1
  /\ rx_in' = Append(rx_in, RxEntry(n_recv + 1, <<>>))
  /\ rx_stack' = IF Head(net).kind = "Garbage" THEN <<>> ELSE <<Head(net)>>
  /\ rx_pc' = "beat"
  /\ UNCHANGED << lock, overflow_checks, cfg, selected_in, selected_out, is_running, bridge,
                  n_sessions, hb, touched, output, n_dgram, cb_pc, midi_in >>

(* Line 179: output.send(ConnectionHeartbeat).await, for every datagram. *)
RxBeat ==
  /\ rx_pc = "beat"
  /\ CanSend(output, "rx")
  /\ Emit(ConnectionHeartbeat)
  /\ rx_pc' = Resume(rx_stack)
  /\ UNCHANGED << lock, overflow_checks, cfg, selected_in, selected_out, is_running, bridge,
                  n_sessions, hb, touched, net, n_dgram, n_recv, rx_stack, cb_pc, midi_in >>

(* Lines 245-249: process_packet on a bundle visits its content in order. *)
RxBundle ==
  /\ rx_pc = "packet"
  /\ Head(rx_stack).kind = "Bundle"
  /\ rx_stack' = OpenBundle(rx_stack)
  /\ rx_pc' = Resume(rx_stack')
  /\ UNCHANGED << lock, overflow_checks, cfg, selected_in, selected_out, is_running, bridge,
                  n_sessions, hb, touched, output, net, n_dgram, n_recv, cb_pc, midi_in,
                  rx_in >>

(* Lines 202-227: process_packet on a message, up to its first send or to  *)
(* the touch lookup.                                                       *)
RxMessage ==
  /\ rx_pc = "packet"
  /\ Head(rx_stack).kind = "Message"
  /\ rx_in' = Append(rx_in, RxEntry(n_recv, <<Head(rx_stack)>>))
  /\ rx_stack' = Tail(rx_stack)
  /\ rx_pc' = IF is_liveness(Head(rx_stack).addr)
              THEN "ping"
              ELSE After(Branch(cfg, Head(rx_stack)), rx_stack')
  /\ UNCHANGED << lock, overflow_checks, cfg, selected_in, selected_out, is_running, bridge,
                  n_sessions, hb, touched, output, net, n_dgram, n_recv, cb_pc, midi_in >>

(* Line 205: output_channel.send(ConnectionHeartbeat).await. *)
RxPing ==
  /\ rx_pc = "ping"
  /\ CanSend(output, "rx")
  /\ Emit(ConnectionHeartbeat)
  /\ rx_pc' = After(Branch(cfg, CurrentMessage), rx_stack)
  /\ UNCHANGED << lock, overflow_checks, cfg, selected_in, selected_out, is_running, bridge,
                  n_sessions, hb, touched, net, n_dgram, n_recv, rx_stack, cb_pc, midi_in >>

(* The event carries the text shown on the display. *)
label_event_cleaned(idx, name) == LabelUpdate(idx, clean(name))

(* Lines 214-216: Event::LabelUpdate(idx, name.clone()). *)
label_event(idx, name) == LabelUpdate(idx, name)

(* Lines 214-217: LabelUpdate, then the Sysex frame of send_mcu_label. *)
RxLabel ==
  /\ rx_pc = "label"
  /\ CanSend(output, "rx")
  /\ LET idx  == name_index(CurrentMessage)
         name == CurrentMessage.args[1].s
         ev   == label_event(idx, name)
     IN  IF label_offset(idx, overflow_checks) = -1
         THEN /\ rx_in' = [rx_in EXCEPT ![Len(rx_in)].events = Append(@, ev)]
              /\ Panic
         ELSE /\ output' = Push(output, "rx", ev)
              /\ rx_in' = [rx_in EXCEPT
                   ![Len(rx_in)].events = Append(@, ev),
                   ![Len(rx_in)].midi = Append(@, send_mcu_label(idx, name, overflow_checks))]
              /\ rx_pc' = Resume(rx_stack)
              /\ UNCHANGED <<bridge, rx_stack, net>>
  /\ UNCHANGED << lock, overflow_checks, cfg, selected_in, selected_out, is_running, n_sessions,
                  hb, touched, n_dgram, n_recv, cb_pc, midi_in >>

(* The motor moves whatever the touch flag says. *)
after_touch_ignored(is_touched, stack) == "motor"

(* Line 236: if !is_touched. *)
after_touch(is_touched, stack) == IF is_touched THEN Resume(stack) ELSE "motor"

(* Line 230: touched.lock(); it waits while the callback holds the lock. *)
RxLock ==
  /\ rx_pc = "touch"
  /\ lock = "free"
  /\ lock' = "rx"
  /\ rx_pc' = "read"
  /\ UNCHANGED << overflow_checks, cfg, selected_in, selected_out, is_running, bridge,
                  n_sessions, hb, touched, output, net, n_dgram, n_recv, rx_stack, cb_pc,
                  midi_in, rx_in >>

(* Lines 231-236: the read of is_touched under the lock; an index past the *)
(* array panics with the lock held, which poisons it.                      *)
RxTouch ==
  /\ rx_pc = "read"
  /\ LET idx == CurrentMapping.data_number
     IN  IF idx >= TouchSlots
         THEN /\ Panic
              /\ lock' = "poisoned"
              /\ UNCHANGED rx_in
         ELSE /\ rx_in' = [rx_in EXCEPT ![Len(rx_in)].touched =
                              IF touched[idx] THEN "held" ELSE "free"]
              /\ rx_pc' = after_touch(touched[idx], rx_stack)
              /\ lock' = drop_guard(lock)
              /\ UNCHANGED <<bridge, rx_stack, net, output>>
  /\ UNCHANGED << overflow_checks, cfg, selected_in, selected_out, is_running, n_sessions,
                  hb, touched, n_dgram, n_recv, cb_pc, midi_in >>

(* Lines 237-239: the motor move. *)
RxMotor ==
  /\ rx_pc = "motor"
  /\ LET idx == CurrentMapping.data_number
         f   == CurrentMessage.args[1].f
     IN  IF motor_status(idx, overflow_checks) = -1
         THEN /\ Panic
              /\ UNCHANGED rx_in
         ELSE /\ rx_in' = [rx_in EXCEPT ![Len(rx_in)].midi =
                              Append(@, motor_message(idx, f, overflow_checks))]
              /\ rx_pc' = "fader"
              /\ UNCHANGED <<bridge, rx_stack, net, output>>
  /\ UNCHANGED << lock, overflow_checks, cfg, selected_in, selected_out, is_running, n_sessions,
                  hb, touched, n_dgram, n_recv, cb_pc, midi_in >>

(* Line 240: output_channel.send(FaderUpdate(idx, f)).await. *)
RxFader ==
  /\ rx_pc = "fader"
  /\ CanSend(output, "rx")
  /\ Emit(FaderUpdate(CurrentMapping.data_number, CurrentMessage.args[1].f))
  /\ rx_pc' = Resume(rx_stack)
  /\ UNCHANGED << lock, overflow_checks, cfg, selected_in, selected_out, is_running, bridge,
                  n_sessions, hb, touched, net, n_dgram, n_recv, rx_stack, cb_pc, midi_in >>

(* The Rx loop is suspended: it waits for a datagram or for room in the    *)
(* event channel.                                                          *)
RxSuspended ==
  \/ rx_pc = "recv"
  \/ rx_pc \in {"beat", "ping", "label", "fader"} /\ ~CanSend(output, "rx")

(* The channel's receiver, polled by the same task as the Rx loop, hands   *)
(* the oldest event to the application.                                    *)
Drain ==
  /\ bridge = "running"
  /\ RxSuspended
  /\ output.q # <<>>
  /\ output' = Pop(output)
  /\ UNCHANGED << lock, overflow_checks, cfg, selected_in, selected_out, is_running, bridge,
                  n_sessions, hb, touched, net, n_dgram, n_recv, rx_pc, rx_stack, cb_pc,
                  midi_in, rx_in >>

(* The console sends a datagram to the listen port. *)
ConsoleSend(p) ==
  /\ bridge = "running"
  /\ n_dgram < MaxDatagrams
  /\ n_dgram' = n_dgram + 1
  /\ net' = Append(net, p)
  /\ UNCHANGED << lock, overflow_checks, cfg, selected_in, selected_out, is_running, bridge,
                  n_sessions, hb, touched, output, n_recv, rx_pc, rx_stack, cb_pc, midi_in,
                  rx_in >>

----------------------------------------------------------------------------
(* Heartbeat / sync task: midi_osc_logic.rs 68-92                          *)

(* Lines 73-76. *)
init_msg == OscMessage(<<"/", "e", "o", "s", "/", "f", "a", "d", "e", "r", "/", "1", "/", "c", "o", "n", "f", "i", "g", "/", "1", "0">>, <<>>)

(* Lines 84-87. *)
ping == OscMessage(<<"/", "e", "o", "s", "/", "p", "i", "n", "g">>, <<String(<<"B", "r", "i", "d", "g", "e", "S", "y", "n", "c">>)>>)

(* A send that fails ends the task. *)
hb_send_stops(task, msg, ok) ==
  [task EXCEPT !.sent = Append(@, [msg |-> msg, ok |-> ok]),
               !.pc = IF ok THEN @ ELSE "stopped"]

(* Lines 77-79 and 88-90: let _ = hb_socket.send_to(..); the result of the *)
(* send is dropped.                                                        *)
hb_send(task, msg, ok) == [task EXCEPT !.sent = Append(@, [msg |-> msg, ok |-> ok])]

(* Lines 73-79: the request for the fader configuration. *)
HbInit(i) ==
  /\ hb[i].pc = "init"
  /\ \E ok \in BOOLEAN :
       hb' = [hb EXCEPT ![i] = hb_send([@ EXCEPT !.pc = "sleep"], init_msg, ok)]
  /\ UNCHANGED << lock, overflow_checks, cfg, selected_in, selected_out, is_running, bridge,
                  n_sessions, touched, output, net, n_dgram, n_recv, rx_pc, rx_stack,
                  cb_pc, midi_in, rx_in >>

(* Lines 81-91: the 5 second sleep is over, the ping is sent. *)
HbPing(i) ==
  /\ hb[i].pc = "sleep"
  /\ hb[i].pings < MaxPings
  /\ \E ok \in BOOLEAN :
       hb' = [hb EXCEPT ![i] = hb_send([@ EXCEPT !.pings = @ + 1], ping, ok)]
  /\ UNCHANGED << lock, overflow_checks, cfg, selected_in, selected_out, is_running, bridge,
                  n_sessions, touched, output, net, n_dgram, n_recv, rx_pc, rx_stack,
                  cb_pc, midi_in, rx_in >>

----------------------------------------------------------------------------
(* Start and stop: main.rs 113-121 and 192-210, midi_osc_logic.rs 48-175   *)

InPortSelected ==
  /\ selected_in' = TRUE
  /\ UNCHANGED << lock, overflow_checks, cfg, selected_out, is_running, bridge, n_sessions, hb,
                  touched, output, net, n_dgram, n_recv, rx_pc, rx_stack, cb_pc, midi_in,
                  rx_in >>

OutPortSelected ==
  /\ selected_out' = TRUE
  /\ UNCHANGED << lock, overflow_checks, cfg, selected_in, is_running, bridge, n_sessions, hb,
                  touched, output, net, n_dgram, n_recv, rx_pc, rx_stack, cb_pc, midi_in,
                  rx_in >>

(* main.rs 117-121. *)
ToggleBridge ==
  /\ is_running' = IF selected_in /\ selected_out THEN ~is_running ELSE is_running
  /\ UNCHANGED << lock, overflow_checks, cfg, selected_in, selected_out, bridge, n_sessions, hb,
                  touched, output, net, n_dgram, n_recv, rx_pc, rx_stack, cb_pc, midi_in,
                  rx_in >>

(* What the environment lets the start of a session do. *)
StartOutcomes ==
  {"ok", "in_port_missing", "out_port_missing", "bind_failed", "in_connect_failed",
   "out_connect_failed"}

(* The sync task is spawned on line 71: after the ports are found and the  *)
(* sockets bound, before the MIDI connections are made.                    *)
SpawnsHeartbeat(outcome) == outcome \in {"ok", "in_connect_failed", "out_connect_failed"}

NoTouch == [i \in 0..(TouchSlots - 1) |-> FALSE]

NewTask == [pc |-> "init", pings |-> 0, sent |-> <<>>]

(* subscription() holds bridge_subscription while is_running: the runtime  *)
(* starts its future, which runs lines 48-175 up to the first recv_from.   *)
SessionStart(outcome) ==
  /\ is_running
  /\ bridge = "idle"
  /\ n_sessions < MaxSessions
  /\ n_sessions' = n_sessions + 1
  /\ hb' = IF SpawnsHeartbeat(outcome) THEN Append(hb, NewTask) ELSE hb
  /\ IF outcome = "ok"
     THEN /\ bridge' = "running"
          /\ touched' = NoTouch
          /\ lock' = "free"
          /\ output' = NewChannel
          /\ rx_pc' = "recv"
     ELSE /\ bridge' = "panicked"
          /\ rx_pc' = "dead"
          /\ UNCHANGED <<touched, lock, output>>
  /\ UNCHANGED << overflow_checks, cfg, selected_in, selected_out, is_running, net,
                  n_dgram, n_recv, rx_stack, cb_pc, midi_in, rx_in >>

(* subscription() no longer holds bridge_subscription: the runtime drops   *)
(* the future where it is suspended, and with it the sockets, the channel  *)
(* receiver and the MIDI connections (closing the input connection waits   *)
(* for a running callback).  Nothing stops the spawned tasks.              *)
Teardown ==
  /\ ~is_running
  /\ \/ bridge = "panicked"
     \/ bridge = "running" /\ RxSuspended /\ cb_pc = "idle"
  /\ bridge' = "idle"
  /\ rx_pc' = "off"
  /\ rx_stack' = <<>>
  /\ net' = <<>>
  /\ output' = ClosedChannel
  /\ UNCHANGED << lock, overflow_checks, cfg, selected_in, selected_out, is_running, n_sessions,
                  hb, touched, n_dgram, n_recv, cb_pc, midi_in, rx_in >>

----------------------------------------------------------------------------
(* Specifications                                                          *)

(* The application after EosBridge::new, no configuration saved. *)
Init ==
  /\ overflow_checks \in BOOLEAN
  /\ cfg = DefaultMappings
  /\ selected_in = FALSE
  /\ selected_out = FALSE
  /\ is_running = FALSE
  /\ bridge = "idle"
  /\ n_sessions = 0
  /\ hb = <<>>
  /\ touched = NoTouch
  /\ lock = "free"
  /\ output = ClosedChannel
  /\ net = <<>>
  /\ n_dgram = 0
  /\ n_recv = 0
  /\ rx_pc = "off"
  /\ rx_stack = <<>>
  /\ cb_pc = "idle"
  /\ midi_in = <<>>
  /\ rx_in = <<>>

Half == [num |-> 1, den |-> 2]

(* Datagrams and MIDI messages of the whole-bridge specification. *)
Fader1Half == OscMessage(EosFaderPrefix \o <<"1">>, <<Float(Half)>>)

PingReply == OscMessage(<<"/", "e", "o", "s", "/", "o", "u", "t", "/", "p", "i", "n", "g">>, <<>>)

Fader3Name == OscMessage(EosFaderPrefix \o <<"3", "/", "n", "a", "m", "e">>, <<String(<<"F", "a", "d", "e", "r", " ", "3", ":", " ", "V", "o", "x">>)>>)

BridgeDatagrams == {Fader1Half, OscBundle(<<PingReply, Fader3Name>>)}

BridgeMidi == { <<144, 104, 127>>, <<224, 0, 64>> }

Next ==
  \/ InPortSelected
  \/ OutPortSelected
  \/ ToggleBridge
  \/ \E outcome \in StartOutcomes : SessionStart(outcome)
  \/ Teardown
  \/ \E i \in 1..Len(hb) : HbInit(i)
  \/ \E i \in 1..Len(hb) : HbPing(i)
  \/ \E msg \in BridgeMidi : Len(midi_in) < MaxInputs /\ MidiIn(msg)
  \/ MidiLock
  \/ MidiTouch
  \/ MidiCapture
  \/ MidiOsc
  \/ \E p \in BridgeDatagrams : n_dgram < MaxInputs /\ ConsoleSend(p)
  \/ RxRecv
  \/ RxBeat
  \/ RxBundle
  \/ RxMessage
  \/ RxPing
  \/ RxLabel
  \/ RxLock
  \/ RxTouch
  \/ RxMotor
  \/ RxFader
  \/ Drain

Spec == Init /\ [][Next]_vars

----------------------------------------------------------------------------
(* Specifications over a running session                                   *)

(* A datagram that is no OSC packet. *)
Garbage == [kind |-> "Garbage"]

(* The entry of rx_in for a datagram of which only line 179 had an effect. *)
BeatEntry(n) ==
  [dgram |-> n, msg |-> <<>>, touched |-> "unread", midi |-> <<>>,
   events |-> <<ConnectionHeartbeat>>]

(* A session after a successful start on mappings in Configs; the console  *)
(* has sent `backlog` datagrams that were no OSC packets, and the events   *)
(* of line 179 for them are still in the channel; the datagrams in_flight  *)
(* wait on the socket.                                                     *)
InitRunning(backlog, in_flight) ==
  /\ overflow_checks \in BOOLEAN
  /\ cfg \in Configs
  /\ selected_in = TRUE
  /\ selected_out = TRUE
  /\ is_running = TRUE
  /\ bridge = "running"
  /\ n_sessions = 1
  /\ hb = <<NewTask>>
  /\ touched = NoTouch
  /\ lock = "free"
  /\ output = [open |-> TRUE, q |-> [i \in 1..backlog |-> ConnectionHeartbeat], parked |-> <<>>]
  /\ net = in_flight
  /\ n_dgram = backlog + Len(in_flight)
  /\ n_recv = backlog
  /\ rx_pc = "recv"
  /\ rx_stack = <<>>
  /\ cb_pc = "idle"
  /\ midi_in = <<>>
  /\ rx_in = [i \in 1..backlog |-> BeatEntry(i)]

(* The MIDI callback on the wide set of messages. *)
InitMidi == \E backlog \in {0, ChannelSize} : InitRunning(backlog, <<>>)

NextMidi ==
  \/ \E msg \in MidiMessages : MidiIn(msg)
  \/ MidiLock
  \/ MidiTouch
  \/ MidiCapture
  \/ MidiOsc
  \/ Drain

SpecMidi == InitMidi /\ [][NextMidi]_vars

(* The dispatcher on the wide set of datagrams, with a hand on the faders. *)
CustomDatagrams ==
  { Fader1Half,
    OscMessage(<<"/", "a", "b">>, <<Float([num |-> 1, den |-> 3])>>),
    OscMessage(<<"/", "c">>, <<Float(Half)>>),
    OscMessage(<<"/", "m">>, <<Float([num |-> 3, den |-> 2])>>),
    OscMessage(<<"/", "n">>, <<Float(One)>>),
    Fader3Name,
    Garbage }

DefaultDatagrams ==
  { Fader1Half,
    Fader3Name,
    OscMessage(EosFaderPrefix \o <<"3", "8", "/", "n", "a", "m", "e">>, <<String(<<"G", "r", "a", "n", "d", " ", "M", "a", "s", "t", "e", "r">>)>>),
    OscMessage(EosFaderPrefix \o <<"0", "/", "n", "a", "m", "e">>, <<String(<<"E_ACUTE">> \o <<"t", ":">>)>>),
    OscMessage(EosFaderPrefix \o <<"x", "/", "n", "a", "m", "e">>, <<String(<<"V", "o", "x">>)>>),
    PingReply,
    OscMessage(<<"/", "o", "t", "h", "e", "r">>, <<Float(Half)>>),
    OscBundle(<<Fader3Name, OscBundle(<<Fader1Half>>)>>),
    Garbage }

(* The datagrams sent to a session: those that tell something under its    *)
(* mappings.                                                               *)
OscDatagrams == IF cfg = DefaultMappings THEN DefaultDatagrams ELSE CustomDatagrams

TouchMidi == { <<144, 104, 127>>, <<144, 106, 1>> }

InitOsc == InitRunning(0, <<>>)

NextOsc ==
  \/ \E p \in OscDatagrams : n_dgram < MaxInputs /\ ConsoleSend(p)
  \/ \E msg \in TouchMidi : Len(midi_in) < MaxInputs /\ MidiIn(msg)
  \/ MidiLock
  \/ MidiTouch
  \/ MidiCapture
  \/ RxRecv
  \/ RxBeat
  \/ RxBundle
  \/ RxMessage
  \/ RxPing
  \/ RxLabel
  \/ RxLock
  \/ RxTouch
  \/ RxMotor
  \/ RxFader
  \/ Drain

SpecOsc == InitOsc /\ [][NextOsc]_vars

(* Feedback for fader 1 against touches of fader 1. *)
TouchDatagrams == {Fader1Half, OscMessage(EosFaderPrefix \o <<"1">>, <<Float(One)>>)}

(* A hand on fader 1, and the two ways the surface reports its release. *)
TouchGestures == {<<144, 104, 127>>, <<128, 104, 0>>, <<144, 104, 0>>}

InitTouch == InitRunning(0, <<>>) /\ cfg = DefaultMappings

NextTouch ==
  \/ \E p \in TouchDatagrams : ConsoleSend(p)
  \/ \E msg \in {<<144, 104, 127>>, <<128, 104, 0>>} : MidiIn(msg)
  \/ MidiLock
  \/ MidiTouch
  \/ MidiCapture
  \/ RxRecv
  \/ RxBeat
  \/ RxMessage
  \/ RxLock
  \/ RxTouch
  \/ RxMotor
  \/ RxFader
  \/ Drain

SpecTouch == InitTouch /\ [][NextTouch]_vars

(* The level of fader 1 against a hand that comes and goes. *)
NextRelease ==
  \/ ConsoleSend(Fader1Half)
  \/ \E msg \in TouchGestures : MidiIn(msg)
  \/ MidiLock
  \/ MidiTouch
  \/ MidiCapture
  \/ RxRecv
  \/ RxBeat
  \/ RxMessage
  \/ RxLock
  \/ RxTouch
  \/ RxMotor
  \/ RxFader
  \/ Drain

SpecRelease == InitTouch /\ [][NextRelease]_vars

(* The same run where a step at the lock that can be taken is taken in the *)
(* end: the holder of the guard is a running thread or a polled task, and  *)
(* a waiter is woken when the guard is dropped.                            *)
SpecReleaseFair ==
  /\ SpecRelease
  /\ WF_vars(MidiLock)
  /\ WF_vars(MidiTouch)
  /\ WF_vars(RxLock)
  /\ WF_vars(RxTouch)

(* A message that is both a liveness reply and a name update. *)
LiveName == OscMessage(<<"/", "e", "o", "s", "/", "o", "u", "t", "/", "f", "a", "d", "e", "r", "/", "1", "/", "3", "/", "n", "a", "m", "e">>, <<String(<<"F", "a", "d", "e", "r", " ", "3", ":", " ", "V", "o", "x">>)>>)

BundleLeaves == {Fader1Half, LiveName}

(* The messages and the two-packet bundles nested to depth d. *)
RECURSIVE Nested(_)
Nested(d) ==
  IF d = 0 THEN BundleLeaves
  ELSE BundleLeaves \cup {OscBundle(<<a, b>>) : a, b \in Nested(d - 1)}

(* The leaf messages of a packet in their encoded order. *)
RECURSIVE Leaves(_)
Leaves(p) ==
  IF p.kind = "Message" THEN <<p>>
  ELSE IF p.content = <<>> THEN <<>>
  ELSE Leaves(Head(p.content)) \o Leaves(OscBundle(Tail(p.content)))

FlatBundle(p) == OscBundle(Leaves(p))

(* The callback's log and the channel once [0x90, 104, 127] has been       *)
(* handled: fader 1 is held.                                               *)
HeldLog ==
  <<[msg |-> <<144, 104, 127>>,
     captured |-> <<MidiCaptured("NoteOn", 104, <<144, 104, 127>>)>>,
     osc |-> <<>>]>>

(* The console sends a packet and then the flat bundle of its leaves, to a *)
(* session in which fader 1 is free or has been taken by a hand.           *)
InitBundle ==
  \E p \in Nested(MaxDepth), held \in BOOLEAN :
    /\ overflow_checks = TRUE
    /\ cfg = DefaultMappings
    /\ selected_in = TRUE
    /\ selected_out = TRUE
    /\ is_running = TRUE
    /\ bridge = "running"
    /\ n_sessions = 1
    /\ hb = <<NewTask>>
    /\ touched = [NoTouch EXCEPT ![1] = held]
    /\ lock = "free"
    /\ output = [open |-> TRUE, q |-> IF held THEN HeldLog[1].captured ELSE <<>>,
                 parked |-> <<>>]
    /\ net = <<p, FlatBundle(p)>>
    /\ n_dgram = 2
    /\ n_recv = 0
    /\ rx_pc = "recv"
    /\ rx_stack = <<>>
    /\ cb_pc = "idle"
    /\ midi_in = IF held THEN HeldLog ELSE <<>>
    /\ rx_in = <<>>

NextBundle ==
  \/ RxRecv
  \/ RxBeat
  \/ RxBundle
  \/ RxMessage
  \/ RxPing
  \/ RxLabel
  \/ RxLock
  \/ RxTouch
  \/ RxMotor
  \/ RxFader
  \/ Drain

SpecBundle == InitBundle /\ [][NextBundle]_vars

(* The dispatcher on name messages: well formed and not, with and without  *)
(* the liveness prefix, alone and in front of a feedback message.          *)

(* A table a user may have saved: the defaults, and fader 2 also on the    *)
(* address the console echoes it on.                                       *)
EchoMappings ==
  DefaultMappings \o
    << MidiOscMapping("PitchBend", 2, <<"/", "e", "o", "s", "/", "o", "u", "t", "/", "f", "a", "d", "e", "r", "/", "1", "/", "2">>, <<>>) >>

NameFloat == OscMessage(EosFaderPrefix \o <<"1", "/", "n", "a", "m", "e">>, <<Float(Half)>>)

NameBadIndex == OscMessage(EosFaderPrefix \o <<"x", "/", "n", "a", "m", "e">>, <<String(<<"V", "o", "x">>)>>)

NameShort == OscMessage(<<"/", "n", "a", "m", "e">>, <<String(<<"V", "o", "x">>)>>)

LiveFader == OscMessage(<<"/", "e", "o", "s", "/", "o", "u", "t", "/", "f", "a", "d", "e", "r", "/", "1", "/", "2">>, <<Float(Half)>>)

LiveNameFloat == OscMessage(<<"/", "e", "o", "s", "/", "o", "u", "t", "/", "f", "a", "d", "e", "r", "/", "1", "/", "2", "/", "n", "a", "m", "e">>, <<Float(Half)>>)

NameDatagrams ==
  { NameFloat, NameBadIndex, NameShort, Fader3Name, LiveName, LiveNameFloat, LiveFader,
    Fader1Half, OscBundle(<<NameBadIndex, Fader1Half>>) }

InitName ==
  /\ overflow_checks \in BOOLEAN
  /\ cfg = EchoMappings
  /\ selected_in = TRUE
  /\ selected_out = TRUE
  /\ is_running = TRUE
  /\ bridge = "running"
  /\ n_sessions = 1
  /\ hb = <<NewTask>>
  /\ touched = NoTouch
  /\ lock = "free"
  /\ output = NewChannel
  /\ net = <<>>
  /\ n_dgram = 0
  /\ n_recv = 0
  /\ rx_pc = "recv"
  /\ rx_stack = <<>>
  /\ cb_pc = "idle"
  /\ midi_in = <<>>
  /\ rx_in = <<>>

NextName ==
  \/ \E p \in NameDatagrams : ConsoleSend(p)
  \/ RxRecv
  \/ RxBeat
  \/ RxBundle
  \/ RxMessage
  \/ RxPing
  \/ RxLabel
  \/ RxLock
  \/ RxTouch
  \/ RxMotor
  \/ RxFader
  \/ Drain

SpecName == InitName /\ [][NextName]_vars

(* The dispatcher on feedback for every kind of mapping of the table.      *)

(* The console echoes the address of the default "page down" button. *)
PageDown == OscMessage(<<"/", "e", "o", "s", "/", "f", "a", "d", "e", "r", "/", "1", "/", "p", "a", "g", "e", "/", "-", "1">>, <<Float(One)>>)

FeedbackDatagrams ==
  IF cfg = DefaultMappings
  THEN { Fader1Half, PageDown }
  ELSE { OscMessage(<<"/", "c">>, <<Float(Half)>>),
         OscMessage(<<"/", "n">>, <<Float(One)>>),
         OscMessage(<<"/", "m">>, <<Float(Half)>>) }

NextFeedback ==
  \/ \E p \in FeedbackDatagrams : ConsoleSend(p)
  \/ RxRecv
  \/ RxBeat
  \/ RxMessage
  \/ RxLock
  \/ RxTouch
  \/ RxMotor
  \/ RxFader
  \/ Drain

SpecFeedback == InitRunning(0, <<>>) /\ [][NextFeedback]_vars

(* The floats a feedback message may carry: the rationals of small         *)
(* denominator around [0, 1], the infinities and NaN, and values whose     *)
(* pitch bend lies halfway between two integers.                           *)
PitchFloats ==
  { [num |-> n, den |-> d] : n \in (0 - MaxDen)..(2 * MaxDen), d \in 0..MaxDen }
    \cup { [num |-> 2 * k + 1, den |-> 2 * 16383] : k \in {0, 1, 8191, 16381, 16382} }

(* Every pitch-bend message of the first fader: the 14-bit positions. *)
PitchMidi == { <<224, lsb, msb>> : lsb \in 0..127, msb \in 0..127 }

(* The console answers a fader move with the level it was sent. *)
ConsoleEcho ==
  \E j \in 1..Len(midi_in) :
    /\ cb_pc = "idle"
    /\ midi_in[j].osc # <<>>
    /\ ConsoleSend(midi_in[j].osc[1])

InitPitch == InitRunning(0, <<>>) /\ cfg = DefaultMappings /\ overflow_checks

(* One value per behaviour: a level from the console, or a fader move and  *)
(* the console's answer to it.                                             *)
NextPitch ==
  \/ /\ n_dgram = 0 /\ midi_in = <<>>
     /\ \E f \in PitchFloats : ConsoleSend(OscMessage(EosFaderPrefix \o <<"1">>, <<Float(f)>>))
  \/ /\ n_dgram = 0 /\ midi_in = <<>>
     /\ \E msg \in PitchMidi : MidiIn(msg)
  \/ MidiCapture
  \/ MidiOsc
  \/ n_dgram = 0 /\ ConsoleEcho
  \/ RxRecv
  \/ RxBeat
  \/ RxMessage
  \/ RxLock
  \/ RxTouch
  \/ RxMotor
  \/ RxFader

SpecPitch == InitPitch /\ [][NextPitch]_vars

(* The heartbeat task of a running session, the console answering its      *)
(* pings, and the session being stopped.                                   *)
NextHeartbeat ==
  \/ \E i \in 1..Len(hb) : HbInit(i)
  \/ \E i \in 1..Len(hb) : HbPing(i)
  \/ ConsoleSend(PingReply)
  \/ RxRecv
  \/ RxBeat
  \/ RxMessage
  \/ RxPing
  \/ Drain
  \/ ToggleBridge
  \/ Teardown

SpecHeartbeat == InitRunning(0, <<>>) /\ [][NextHeartbeat]_vars


----------------------------------------------------------------------------
(* Claims                                                                  *)

IsMotorMessage(bytes) == Len(bytes) = 3

HasFaderUpdate(e) == \E j \in 1..Len(e.events) : e.events[j].tag = "FaderUpdate"

HasMotorMessage(e) == \E j \in 1..Len(e.midi) : IsMotorMessage(e.midi[j])

(* C1: a feedback message whose touch lookup finds the fader held sends no *)
(* motor message and emits no FaderUpdate, and its value is not sent       *)
(* later: every motor message and every FaderUpdate belongs to a message   *)
(* whose own lookup found the fader free, and carries that message's own   *)
(* value.                                                                  *)
C1_MotorSuppression ==
  \A k \in 1..Len(rx_in) :
    LET e == rx_in[k]
    IN  /\ e.touched = "held" => ~HasMotorMessage(e) /\ ~HasFaderUpdate(e)
        /\ HasMotorMessage(e) \/ HasFaderUpdate(e) =>
             /\ e.touched = "free"
             /\ \A j \in 1..Len(e.midi) :
                  LET pb == float_to_pitch_bend(e.msg[1].args[1].f)
                  IN  IsMotorMessage(e.midi[j]) =>
                        e.midi[j][2] = pb % 128 /\ e.midi[j][3] = pb \div 128
             /\ \A j \in 1..Len(e.events) :
                  e.events[j].tag = "FaderUpdate" => e.events[j].f = e.msg[1].args[1].f

(* A value dropped under a touch, and after the release a later message    *)
(* that moved the motor.                                                   *)
C1_Witness ==
  \E k, l \in 1..Len(rx_in) :
    /\ k < l
    /\ rx_in[k].touched = "held"
    /\ rx_in[l].touched = "free"
    /\ HasMotorMessage(rx_in[l])
    /\ HasFaderUpdate(rx_in[l])

(* C2: under every interleaving of the MIDI callback and the Rx loop, no   *)
(* motor message for a fader is sent while its touch flag is true.         *)
C2_NoMotorWhileTouched ==
  [][ (rx_pc = "motor" /\ rx_pc' = "fader") => ~touched[CurrentMapping.data_number] ]_vars

HbAlive(i) == hb[i].pc \in {"init", "sleep"}

(* C3: stopping the session ends the MIDI callback, the Rx loop and the    *)
(* heartbeat task together: in no state has the Rx loop stopped while a    *)
(* heartbeat task is still running.                                        *)
C3_StopsTogether == rx_pc \in {"off", "dead"} => \A i \in 1..Len(hb) : ~HbAlive(i)

NewMidi == midi_in'[Len(midi_in')].msg

IsNote(msg) == Len(msg) >= 3 /\ (msg[1] \div 16) \in {9, 8}

(* C4: a note on/off with note n in 104..111 writes touched[n - 103] and   *)
(* no other slot, with n = 112 it writes touched[9] and no other slot, and *)
(* with any other note it changes no slot.                                 *)
C4_TouchSlotMapping ==
  [][ /\ touched' # touched => cb_pc = "write" /\ IsNote(CurrentMidi)
      /\ cb_pc = "write" /\ cb_pc' # "write" =>
           LET n == CurrentMidi[2]
               v == (CurrentMidi[1] \div 16) = 9 /\ CurrentMidi[3] > 0
           IN  /\ n \in 104..111 => touched' = [touched EXCEPT ![n - 103] = v]
               /\ n = 112 => touched' = [touched EXCEPT ![9] = v]
               /\ n \notin 104..112 => touched' = touched ]_vars

(* Notes 104 and 112 pressed: slots 1 and 9 are set, nothing else. *)
C4_Witness ==
  /\ Len(midi_in) = 2
  /\ midi_in[1].msg = <<144, 104, 127>>
  /\ midi_in[2].msg = <<144, 112, 1>>
  /\ \A i \in 0..(TouchSlots - 1) : touched[i] <=> i \in {1, 9}

(* The event the translator publishes for a message, as specified:         *)
(* <<>> where it publishes none.                                           *)
CapturedAsClaimed(msg, with_note_off) ==
  LET nib == msg[1] \div 16
      raw == SubSeq(msg, 1, 3)
  IN  CASE nib = 14 -> <<MidiCaptured("PitchBend", (msg[1] % 16) + 1, raw)>>
        [] nib = 9 -> <<MidiCaptured("NoteOn", msg[2], raw)>>
        [] nib = 8 /\ with_note_off -> <<MidiCaptured("NoteOn", msg[2], raw)>>
        [] nib = 11 -> <<MidiCaptured("ControlChange", msg[2], raw)>>
        [] OTHER -> <<>>

(* The callback has got past its try_send for invocation j. *)
CaptureOver(j) == j < Len(midi_in) \/ cb_pc # "capture"

FirstMatch(mappings, etype, dnum) ==
  { i \in 1..Len(mappings) :
      /\ mappings[i].event_type = etype /\ mappings[i].data_number = dnum
      /\ \A j \in 1..(i - 1) :
           ~(mappings[j].event_type = etype /\ mappings[j].data_number = dnum) }

(* C7: the OSC address used for a MIDI message is that of the first        *)
(* mapping in table order with its event type and data number; a later     *)
(* mapping with the same key is never used, and without a match no OSC     *)
(* message is sent.                                                        *)
C7_FirstMatchWins ==
  \A j \in 1..Len(midi_in) :
    LET e   == midi_in[j]
        key == IF Len(e.msg) >= 3 THEN CapturedAsClaimed(e.msg, FALSE) ELSE <<>>
        hit == IF key = <<>> THEN {} ELSE FirstMatch(cfg, key[1].etype, key[1].dnum)
    IN  (j < Len(midi_in) \/ cb_pc = "idle") =>
          IF hit = {}
          THEN e.osc = <<>>
          ELSE /\ Len(e.osc) = 1
               /\ \A i \in hit : e.osc[1].addr = cfg[i].osc_address

(* Pitch bend on channel 3 against the table with two mappings for         *)
(* (PitchBend, 3): the message went to the first one's address.            *)
C7_Witness ==
  \E j \in 1..Len(midi_in) :
    /\ cfg = CustomMappings
    /\ midi_in[j].msg = <<226, 127, 127>>
    /\ Len(midi_in[j].osc) = 1
    /\ midi_in[j].osc[1].addr = cfg[1].osc_address
    /\ cfg[2].event_type = "PitchBend" /\ cfg[2].data_number = 3
    /\ cfg[2].osc_address # cfg[1].osc_address

(* What the Rx loop did for the leaf messages of datagram k, in order. *)
Effects(k) ==
  LET leaves == SelectSeq(rx_in, LAMBDA e : e.dgram = k /\ e.msg # <<>>)
  IN  [i \in 1..Len(leaves) |->
         [msg |-> leaves[i].msg[1], midi |-> leaves[i].midi, events |-> leaves[i].events]]

(* C6: a bundle has the same ordered sequence of effects (MIDI output and  *)
(* events, leaf by leaf in encoded order) as the flat bundle of its        *)
(* leaves, whatever its nesting.                                           *)
C6_FlatteningPreservesOrder ==
  n_recv = 2 /\ rx_pc = "recv" => Effects(1) = Effects(2)

(* Both datagrams are done, the first one had at least three leaves (so    *)
(* it was nested) and moved the motor.                                     *)
C6_Witness ==
  /\ n_recv = 2
  /\ rx_pc = "recv"
  /\ Len(Effects(1)) >= 3
  /\ Effects(1)[1].msg # Effects(1)[3].msg
  /\ \E i \in 1..Len(Effects(1)) : Effects(1)[i].midi # <<>> /\ Len(Effects(1)[i].midi[1]) = 3

(* The Rx loop has finished with entry k of its log. *)
LeafDone(k) ==
  /\ rx_in[k].msg # <<>>
  /\ k < Len(rx_in) \/ rx_pc \in {"recv", "packet", "dead"}

LeafMapping(k) == cfg[resolve_feedback(cfg, rx_in[k].msg[1].addr)]

(* C8: a feedback message that resolves to a mapping with data_number idx, *)
(* carries float f and finds TouchState[idx] false sends exactly the MIDI  *)
(* message [0xE0 | (idx-1), pb & 0x7F, pb >> 7] and emits exactly one      *)
(* FaderUpdate(idx, f); for f = 0.5 the data bytes are 0x00 and 0x40.      *)
C8_UntouchedMovesMotor ==
  \A k \in 1..Len(rx_in) :
    LeafDone(k) /\ rx_in[k].touched = "free" =>
      LET idx == LeafMapping(k).data_number
          f   == rx_in[k].msg[1].args[1].f
          pb  == float_to_pitch_bend(f)
      IN  /\ rx_in[k].midi = << <<BitOr(224, (idx - 1) % 256), pb % 128, pb \div 128>> >>
          /\ rx_in[k].events = <<FaderUpdate(idx, f)>>
          /\ f = Half => rx_in[k].midi[1][2] = 0 /\ rx_in[k].midi[1][3] = 64

(* Entry k is a name message whose index parses and whose first argument   *)
(* is a string, and the Rx loop has finished with it.                      *)
NameDone(k) ==
  /\ LeafDone(k)
  /\ is_name(rx_in[k].msg[1].addr)
  /\ name_index(rx_in[k].msg[1]) >= 0

LabelEvents(k) == SelectSeq(rx_in[k].events, LAMBDA ev : ev.tag = "LabelUpdate")

Vox7 == <<32, 32, 86, 111, 120, 32, 32>>

(* C9 as stated: a name message with index idx and string s emits          *)
(* LabelUpdate(idx, cleaned), cleaned being s after its last ':' and       *)
(* trimmed, and not the raw argument.                                      *)
C9_LabelEventCleaned ==
  \A k \in 1..Len(rx_in) :
    NameDone(k) =>
      LabelEvents(k) = <<LabelUpdate(name_index(rx_in[k].msg[1]), clean(rx_in[k].msg[1].args[1].s))>>

(* C9 amended: a name message with index idx and string s emits exactly    *)
(* one LabelUpdate(idx, s) carrying the raw argument; the text after the   *)
(* last ':' , trimmed, is what the display frame holds ("Fader 3: Vox"     *)
(* shows "  Vox  "), cut to 7 bytes, and a frame is sent unless its offset *)
(* overflows in a build that checks overflow.                              *)
C9_LabelEventRaw ==
  \A k \in 1..Len(rx_in) :
    NameDone(k) =>
      LET idx == name_index(rx_in[k].msg[1])
          s   == rx_in[k].msg[1].args[1].s
      IN  /\ LabelEvents(k) = <<LabelUpdate(idx, s)>>
          /\ \/ rx_in[k].midi = <<>> /\ overflow_checks /\ (idx - 1) * 7 > 255
             \/ /\ Len(rx_in[k].midi) = 1
                /\ LET bytes == as_bytes(center7(clean(s)))
                   IN  SubSeq(rx_in[k].midi[1], 8, Len(rx_in[k].midi[1]) - 1) =
                         SubSeq(bytes, 1, IF Len(bytes) < 7 THEN Len(bytes) ELSE 7)
                /\ s = <<"F", "a", "d", "e", "r", " ", "3", ":", " ", "V", "o", "x">> => SubSeq(rx_in[k].midi[1], 8, 14) = Vox7

(* The name "Fader 3: Vox" for fader 3 was published raw and shown cleaned. *)
C9_Witness ==
  \E k \in 1..Len(rx_in) :
    /\ NameDone(k)
    /\ LabelEvents(k) = <<LabelUpdate(3, <<"F", "a", "d", "e", "r", " ", "3", ":", " ", "V", "o", "x">>)>>
    /\ Len(rx_in[k].midi) = 1
    /\ SubSeq(rx_in[k].midi[1], 8, 14) = Vox7

(* C10: for every channel index (from 1) and label the frame sent is 15    *)
(* bytes: the header F0 00 00 66 14 12, the offset byte                    *)
(* (channel_index - 1) * 7, 7 text bytes and F7.                           *)
C10_FrameShape ==
  \A k \in 1..Len(rx_in) :
    NameDone(k) /\ name_index(rx_in[k].msg[1]) >= 1 =>
      /\ Len(rx_in[k].midi) = 1
      /\ LET frame == rx_in[k].midi[1]
         IN  /\ Len(frame) = 15
             /\ SubSeq(frame, 1, 6) = <<240, 0, 0, 102, 20, 18>>
             /\ frame[7] = (name_index(rx_in[k].msg[1]) - 1) * 7
             /\ frame[15] = 247

(* The callback has returned from invocation j. *)
CallbackOver(j) == j < Len(midi_in) \/ cb_pc = "idle"

(* C11: when a mapping is resolved for a MIDI message exactly one OSC      *)
(* Message (no Bundle) goes to the mapped address; its sole argument is    *)
(* (data2*128 + data1)/16383 for PitchBend, with data_number the channel   *)
(* nibble + 1, and data2/127 for ControlChange; for NoteOn it is the       *)
(* mapping's fixed_osc_value, and there is no argument without one.        *)
C11_MidiToOscArgs ==
  \A j \in 1..Len(midi_in) :
    LET e   == midi_in[j]
        nib == e.msg[1] \div 16
        hit == IF Len(e.msg) < 3 THEN {}
               ELSE IF nib = 14 THEN FirstMatch(cfg, "PitchBend", (e.msg[1] % 16) + 1)
               ELSE IF nib = 11 THEN FirstMatch(cfg, "ControlChange", e.msg[2])
               ELSE IF nib = 9 THEN FirstMatch(cfg, "NoteOn", e.msg[2])
               ELSE {}
    IN  CallbackOver(j) =>
          /\ hit = {} => e.osc = <<>>
          /\ \A i \in hit :
               /\ Len(e.osc) = 1
               /\ e.osc[1].kind = "Message"
               /\ e.osc[1].addr = cfg[i].osc_address
               /\ e.osc[1].args =
                    IF nib = 14
                    THEN <<Float([num |-> e.msg[3] * 128 + e.msg[2], den |-> 16383])>>
                    ELSE IF nib = 11
                    THEN <<Float([num |-> e.msg[3], den |-> 127])>>
                    ELSE IF cfg[i].fixed_osc_value = <<>> THEN <<>>
                    ELSE <<Float(cfg[i].fixed_osc_value[1])>>

(* The default mapping NoteOn #46 with fixed value 1.0 sent 1.0 for        *)
(* [0x90, 46, 127].                                                        *)
C11_Witness ==
  \E j \in 1..Len(midi_in) :
    /\ CallbackOver(j)
    /\ cfg = DefaultMappings
    /\ midi_in[j].msg = <<144, 46, 127>>
    /\ midi_in[j].osc = <<OscMessage(EosFaderPrefix \o <<"p", "a", "g", "e", "/", "-", "1">>, <<Float([num |-> 1, den |-> 1])>>)>>

(* C12: float_to_pitch_bend clamps and never rejects: every float given to *)
(* it, NaN and the infinities included, moves the motor with an integer in *)
(* 0..16383; inputs below 0 give 0, inputs above 1 give 16383, and both    *)
(* data bytes of the motor message are in 0..127.                          *)
C12_PitchBendClamps ==
  \A k \in 1..Len(rx_in) :
    LeafDone(k) =>
      LET f == rx_in[k].msg[1].args[1].f
      IN  /\ Len(rx_in[k].midi) = 1
          /\ Len(rx_in[k].midi[1]) = 3
          /\ rx_in[k].midi[1][2] \in 0..127
          /\ rx_in[k].midi[1][3] \in 0..127
          /\ rx_in[k].midi[1][3] * 128 + rx_in[k].midi[1][2] = float_to_pitch_bend(f)
          /\ f.num < 0 => rx_in[k].midi[1][2] = 0 /\ rx_in[k].midi[1][3] = 0
          /\ f.num > f.den => rx_in[k].midi[1][2] = 127 /\ rx_in[k].midi[1][3] = 127

(* The values 2.0 and -1/3 moved the motor to its two ends. *)
C12_Witness ==
  \E k \in 1..Len(rx_in) :
    /\ LeafDone(k)
    /\ rx_in[k].msg[1].args[1].f \in {[num |-> 2, den |-> 1], [num |-> 0 - 1, den |-> 3]}
    /\ rx_in[k].midi \in {<< <<224, 127, 127>> >>, << <<224, 0, 0>> >>}
    /\ rx_in[k].midi = << <<224, 127, 127>> >> <=> rx_in[k].msg[1].args[1].f.num = 2

(* C13: for every v in [0, 1] the position decoded from the two bytes of   *)
(* to_pitch_bend(v), (msb*128 + lsb)/16383, is within 1/16383 of v; and    *)
(* every 14-bit position p sent as a pitch bend and answered by the        *)
(* console with from_pitch_bend(p) comes back as the motor position p.     *)
C13_PitchBendRoundTrip ==
  \A k \in 1..Len(rx_in) :
    LeafDone(k) =>
      LET f    == rx_in[k].msg[1].args[1].f
          back == rx_in[k].midi[1][3] * 128 + rx_in[k].midi[1][2]
          diff == back * f.den - f.num * 16383
      IN  /\ f.den > 0 /\ 0 <= f.num /\ f.num <= f.den =>
               diff <= f.den /\ 0 - diff <= f.den
          /\ \A j \in 1..Len(midi_in) :
               midi_in[j].osc = <<rx_in[k].msg[1]>> => rx_in[k].midi = <<midi_in[j].msg>>

(* The position 0x1234 (lsb 0x34, msb 0x24) went out and came back. *)
C13_Witness ==
  \E k \in 1..Len(rx_in) :
    /\ LeafDone(k)
    /\ Len(midi_in) = 1
    /\ midi_in[1].msg = <<224, 52, 36>>
    /\ midi_in[1].osc = <<rx_in[k].msg[1]>>
    /\ rx_in[k].midi = << <<224, 52, 36>> >>

(* C14: the MIDI callback never waits for the event channel: its touch     *)
(* update, its try_send and its OSC send can always run, whatever the      *)
(* state of the channel, and where the channel is full the MidiCaptured    *)
(* event is dropped, the channel is left alone and the OSC message of the  *)
(* mapping is still sent.                                                  *)
C14_CallbackNeverBlocks ==
  /\ [](cb_pc = "write" => ENABLED MidiTouch)
  /\ [](cb_pc = "capture" => ENABLED MidiCapture)
  /\ [](cb_pc = "osc" => ENABLED MidiOsc)
  /\ [][ /\ cb_pc = "write" /\ cb_pc' # "write" =>
              \A s \in 1..9 : (CurrentMidi[2] = 103 + s) =>
                (touched'[s] <=> (CurrentMidi[1] \div 16 = 9 /\ CurrentMidi[3] > 0))
         /\ cb_pc = "capture" /\ cb_pc' # "capture" /\ IsParked(output, "midi") =>
              /\ output' = output
              /\ midi_in'[Len(midi_in)].captured = <<>>
              /\ cb_pc' = IF FirstMatch(cfg, CapturedAsClaimed(CurrentMidi, FALSE)[1].etype,
                                        CapturedAsClaimed(CurrentMidi, FALSE)[1].dnum) = {}
                          THEN "idle" ELSE "osc"
         /\ cb_pc = "osc" => (cb_pc' = "idle" <=> Len(midi_in'[Len(midi_in)].osc) = 1) ]_vars

(* The channel was full when note on #46 arrived: no MidiCaptured for it,  *)
(* and its OSC message was sent.                                           *)
C14_Witness ==
  /\ cb_pc = "idle"
  /\ Len(midi_in) = 2
  /\ IsParked(output, "midi")
  /\ midi_in[2].msg = <<144, 46, 127>>
  /\ midi_in[2].captured = <<>>
  /\ Len(midi_in[2].osc) = 1

(* C15: a start that fails (a MIDI port missing or not opened, the receive *)
(* port not bound) is aborted as a whole: the failing start leaves no      *)
(* MIDI callback, no Rx loop and no heartbeat task of its own behind.      *)
C15_StartAllOrNothing ==
  [][ bridge = "idle" /\ bridge' = "panicked" =>
        /\ rx_pc' \in {"off", "dead"}
        /\ cb_pc' = "idle"
        /\ Len(hb') = Len(hb) ]_vars

(* C16: the heartbeat task of a session sends the configuration request    *)
(* "/eos/fader/1/config/10" without arguments exactly once and before any  *)
(* ping; after it, it sends "/eos/ping" with the string "BridgeSync" once  *)
(* per expiry of the 5 second timer, for as long as the session runs, and  *)
(* a send that fails does not stop it.                                     *)
C16_HeartbeatSequence ==
  \A i \in 1..Len(hb) :
    /\ hb[i].pc = "init" => hb[i].sent = <<>> /\ hb[i].pings = 0
    /\ hb[i].pc # "init" =>
         /\ hb[i].pc = "sleep"
         /\ Len(hb[i].sent) = 1 + hb[i].pings
         /\ hb[i].sent[1].msg = OscMessage(<<"/", "e", "o", "s", "/", "f", "a", "d", "e", "r", "/", "1", "/", "c", "o", "n", "f", "i", "g", "/", "1", "0">>, <<>>)
         /\ \A k \in 2..Len(hb[i].sent) :
              hb[i].sent[k].msg = OscMessage(<<"/", "e", "o", "s", "/", "p", "i", "n", "g">>, <<String(<<"B", "r", "i", "d", "g", "e", "S", "y", "n", "c">>)>>)
    /\ bridge = "running" /\ hb[i].pc # "init" /\ hb[i].pings < MaxPings => ENABLED HbPing(i)

(* The configuration request failed to be sent and the ping followed.      *)
C16_Witness ==
  /\ bridge = "running"
  /\ Len(hb[1].sent) = 2
  /\ ~hb[1].sent[1].ok
  /\ hb[1].sent[2].msg.addr = <<"/", "e", "o", "s", "/", "p", "i", "n", "g">>

(* The touch note messages for slot s handled so far. *)
TouchNotes(s) ==
  { j \in 1..Len(midi_in) :
      /\ j < Len(midi_in) \/ cb_pc \notin {"lock", "write"}
      /\ Len(midi_in[j].msg) >= 3
      /\ midi_in[j].msg[1] \div 16 \in {9, 8}
      /\ midi_in[j].msg[2] = 103 + s }

(* C17: TouchState[s], s in 1..9, is true exactly when the latest touch    *)
(* note message for the slot was a note on with velocity > 0 (false when   *)
(* there was none, as at session start); a note off or a note on with      *)
(* velocity 0 clears it, and a feedback message that finds the slot clear  *)
(* moves the motor.                                                        *)
C17_TouchStateFollowsNotes ==
  /\ [](\A s \in 1..9 :
          touched[s] <=>
            \E j \in TouchNotes(s) :
              /\ \A l \in TouchNotes(s) : l <= j
              /\ midi_in[j].msg[1] \div 16 = 9
              /\ midi_in[j].msg[3] > 0)
  /\ [][ rx_pc = "read" /\ rx_pc' # "read" /\ ~touched[CurrentMapping.data_number]
           => rx_pc' = "motor" ]_vars

(* Fader 1 was held when a first level arrived and had been released with  *)
(* a note on of velocity 0 when the second arrived, which moved the motor. *)
C17_Witness ==
  /\ Len(midi_in) = 2
  /\ midi_in[1].msg = <<144, 104, 127>>
  /\ midi_in[2].msg = <<144, 104, 0>>
  /\ ~touched[1]
  /\ \E k, l \in 1..Len(rx_in) :
       /\ k < l
       /\ rx_in[k].touched = "held"
       /\ rx_in[l].touched = "free"
       /\ rx_in[l].midi = << <<224, 0, 64>> >>

(* C18: the Rx loop never waits for the event channel: where the channel   *)
(* is full and not being drained, the loop is not held at one of its       *)
(* sends (lines 179, 205, 215, 240) but goes on with the message and with  *)
(* later datagrams.                                                        *)
C18_RxNeverWaitsForChannel ==
  rx_pc \in {"beat", "ping", "label", "fader"} => CanSend(output, "rx")

(* The address is no liveness address, no name address and no mapping's    *)
(* address is a prefix of it.                                              *)
Unrelated(addr) ==
  /\ ~starts_with(addr, <<"/", "e", "o", "s", "/", "o", "u", "t">>)
  /\ ~contains(addr, <<"/", "n", "a", "m", "e">>)
  /\ \A i \in 1..Len(cfg) : ~starts_with(addr, cfg[i].osc_address)

(* The events emitted for datagram n, message by message. *)
DatagramEvents(n) ==
  LET es == SelectSeq(rx_in, LAMBDA e : e.dgram = n)
  IN  [i \in 1..Len(es) |-> es[i].events]

(* C19 as stated: a message with an unrelated address produces no          *)
(* BridgeEvent of any kind, no ConnectionHeartbeat either: nothing is      *)
(* emitted for the datagram that consists of it.                           *)
C19_UnrelatedNoEvent ==
  \A k \in 1..Len(rx_in) :
    LeafDone(k) /\ Unrelated(rx_in[k].msg[1].addr) =>
      \A i \in 1..Len(DatagramEvents(rx_in[k].dgram)) : DatagramEvents(rx_in[k].dgram)[i] = <<>>

(* C19 amended: a message with an unrelated address produces no event of   *)
(* its own, no MIDI output and no read or change of TouchState; the        *)
(* datagram that carried it has produced its one ConnectionHeartbeat on    *)
(* reception, before the message was looked at.                            *)
C19_UnrelatedOnlyDatagramBeat ==
  /\ [](\A k \in 1..Len(rx_in) :
          LeafDone(k) /\ Unrelated(rx_in[k].msg[1].addr) =>
            /\ rx_in[k].events = <<>>
            /\ rx_in[k].midi = <<>>
            /\ rx_in[k].touched = "unread"
            /\ DatagramEvents(rx_in[k].dgram)[1] = <<ConnectionHeartbeat>>)
  /\ [][rx_in' # rx_in => touched' = touched]_vars

(* "/other" with a float was received and passed over. *)
C19_Witness ==
  \E k \in 1..Len(rx_in) :
    /\ LeafDone(k)
    /\ rx_in[k].msg[1].addr = <<"/", "o", "t", "h", "e", "r">>
    /\ rx_in[k].msg[1].args # <<>>
    /\ rx_in[k].events = <<>>
    /\ rx_in[k].midi = <<>>
    /\ rx_pc = "recv"

(* The slots of TouchState that a step changes. *)
SlotsChanged == { s \in DOMAIN touched : touched'[s] # touched[s] }

(* The step sends nothing: no UDP message, no MIDI output message, no      *)
(* event on the channel.                                                   *)
NoSend ==
  /\ output' = output
  /\ net' = net
  /\ Len(midi_in') = Len(midi_in)
  /\ \A j \in 1..Len(midi_in) :
       midi_in'[j].osc = midi_in[j].osc /\ midi_in'[j].captured = midi_in[j].captured
  /\ Len(rx_in') = Len(rx_in)
  /\ \A k \in 1..Len(rx_in) :
       rx_in'[k].midi = rx_in[k].midi /\ rx_in'[k].events = rx_in[k].events

(* C20: the TouchState lock is held by the MIDI callback only at its slot  *)
(* write and by the dispatcher only at its read; the holder can always     *)
(* take that step, which gives the lock back (or leaves it poisoned, where *)
(* the read panics), sends nothing and changes at most one slot (none for  *)
(* the read); so the callback waiting for the lock and the dispatcher      *)
(* waiting for the lock both get past it.                                  *)
C20_LockDiscipline ==
  /\ [](lock = "midi" => cb_pc = "write" /\ ENABLED MidiTouch)
  /\ [](lock = "rx" => rx_pc = "read" /\ ENABLED RxTouch)
  /\ [][ /\ lock = "midi" /\ cb_pc' # cb_pc =>
              lock' = "free" /\ NoSend /\ Cardinality(SlotsChanged) <= 1
         /\ lock = "rx" /\ rx_pc' # rx_pc =>
              /\ SlotsChanged = {}
              /\ \/ lock' = "free" /\ NoSend
                 \/ lock' = "poisoned" /\ rx_pc' = "dead" /\ rx_in' = rx_in /\ midi_in' = midi_in
         /\ lock' \in {"midi", "rx"} /\ lock' # lock => lock = "free" /\ NoSend ]_vars
  /\ (cb_pc = "lock") ~> (cb_pc # "lock")
  /\ (rx_pc = "touch") ~> (rx_pc # "touch")

(* The dispatcher holds the lock for its read of the slot of fader 1 while *)
(* the callback, with a touch of that fader, waits for it.                 *)
C20_Witness ==
  /\ lock = "rx"
  /\ rx_pc = "read"
  /\ cb_pc = "lock"
  /\ CurrentMidi = <<144, 104, 127>>
  /\ ~ENABLED MidiLock

(* A message shorter than 3 bytes, or with a status nibble that is none of *)
(* 0xE0, 0x90, 0x80, 0xB0.                                                 *)
Ignored(msg) == Len(msg) < 3 \/ (msg[1] \div 16) \notin {14, 9, 8, 11}

(* C21: ignored MIDI input has no effect: the callback is over as soon as  *)
(* it has seen an ignored message, no MidiCaptured event and no OSC        *)
(* message is ever recorded for it, and a step that changes a TouchState   *)
(* slot, publishes an event of the callback or sends an OSC message is     *)
(* never taken for it.                                                     *)
C21_IgnoredMidiNoEffect ==
  /\ [](\A j \in 1..Len(midi_in) :
          Ignored(midi_in[j].msg) =>
            /\ midi_in[j].captured = <<>>
            /\ midi_in[j].osc = <<>>
            /\ j = Len(midi_in) => cb_pc = "idle")
  /\ [][ /\ Len(midi_in') = Len(midi_in) + 1 /\ Ignored(NewMidi) =>
              touched' = touched /\ output' = output /\ lock' = lock /\ cb_pc' = "idle"
         /\ \/ touched' # touched
            \/ Len(output'.q) > Len(output.q)
            \/ Len(midi_in') = Len(midi_in) /\ midi_in' # midi_in
            => midi_in # <<>> /\ ~Ignored(CurrentMidi) ]_vars

(* With a hand on fader 1, the surface sent a polyphonic aftertouch for    *)
(* the touch note, or a two-byte note on; the slot is still held and       *)
(* nothing was published or sent for the message.                          *)
C21_Witness ==
  /\ Len(midi_in) = 2
  /\ midi_in[1].msg = <<144, 104, 127>>
  /\ midi_in[2].msg \in { <<160, 104, 1>>, <<144, 104>> }
  /\ Ignored(midi_in[2].msg)
  /\ midi_in[2].captured = <<>>
  /\ midi_in[2].osc = <<>>
  /\ touched[1]
  /\ cb_pc = "idle"

(* The index segment of a name message is missing or is no u8, or the      *)
(* first argument is missing or is no string.                              *)
NameMalformed(m) ==
  LET parts == split(m.addr, "/")
  IN  \/ Len(parts) < 5
      \/ parse_u8(parts[5]) < 0
      \/ m.args = <<>>
      \/ m.args[1].t # "String"

(* The event of the liveness check for message m. *)
LivenessBeat(m) == IF is_liveness(m.addr) THEN <<ConnectionHeartbeat>> ELSE <<>>

(* C22: the Rx loop raises no error on these messages, and of every        *)
(* message it has handled: a name message has had no touch lookup, no      *)
(* motor message and no FaderUpdate, also where a mapping's address is a   *)
(* prefix of its address and it carries a float; a malformed name message  *)
(* has produced no MIDI output at all and no event but that of the         *)
(* liveness check; a well-formed name message has produced its LabelUpdate *)
(* and Sysex frame, and a feedback message its motor message and its       *)
(* FaderUpdate, after the event of the liveness check where the address    *)
(* passes it and whatever was handled before.                              *)
C22_NamePrecedence ==
  /\ rx_pc # "dead"
  /\ bridge = "running"
  /\ \A k \in 1..Len(rx_in) :
       LeafDone(k) =>
         LET e == rx_in[k]
             m == e.msg[1]
         IN  /\ is_name(m.addr) =>
                  e.touched = "unread" /\ ~HasMotorMessage(e) /\ ~HasFaderUpdate(e)
             /\ is_name(m.addr) /\ NameMalformed(m) =>
                  e.midi = <<>> /\ e.events = LivenessBeat(m)
             /\ is_name(m.addr) /\ ~NameMalformed(m) =>
                  /\ e.events = LivenessBeat(m) \o <<LabelUpdate(parse_u8(split(m.addr, "/")[5]), m.args[1].s)>>
                  /\ Len(e.midi) = 1
                  /\ Len(e.midi[1]) > 3
             /\ ~is_name(m.addr) /\ has_float(m) /\ (\E i \in 1..Len(cfg) : starts_with(m.addr, cfg[i].osc_address)) =>
                  /\ e.events = LivenessBeat(m) \o <<FaderUpdate(LeafMapping(k).data_number, m.args[1].f)>>
                  /\ HasMotorMessage(e)

(* A bundle brought a name message whose index is no number and, behind    *)
(* it, the level of fader 1, which moved the motor; another datagram       *)
(* brought a name message with a float on the echo address of fader 2,     *)
(* which gave the liveness event and nothing else.                         *)
C22_Witness ==
  /\ rx_pc = "recv"
  /\ \E a, b, c \in 1..Len(rx_in) :
       /\ LeafDone(a) /\ LeafDone(b) /\ LeafDone(c)
       /\ rx_in[a].msg[1] = NameBadIndex
       /\ rx_in[a].events = <<>> /\ rx_in[a].midi = <<>>
       /\ b = a + 1
       /\ rx_in[b].dgram = rx_in[a].dgram
       /\ rx_in[b].msg[1] = Fader1Half
       /\ HasMotorMessage(rx_in[b]) /\ HasFaderUpdate(rx_in[b])
       /\ rx_in[c].msg[1] = LiveNameFloat
       /\ rx_in[c].events = <<ConnectionHeartbeat>>
       /\ rx_in[c].midi = <<>>
       /\ rx_in[c].touched = "unread"

(* The message the Rx loop is at is a feedback message: no name message,   *)
(* a mapping's address is a prefix of its address, and its first argument  *)
(* is a float.                                                             *)
AtFeedback ==
  /\ rx_in # <<>>
  /\ CurrentLeaf.msg # <<>>
  /\ ~is_name(CurrentMessage.addr)
  /\ resolve_feedback(cfg, CurrentMessage.addr) # 0
  /\ has_float(CurrentMessage)

(* C23: with every data_number of the table in 0..127, the TouchState      *)
(* lookup of a feedback message is within the array (0..12), the channel   *)
(* idx - 1 of its motor message does not underflow, and the Rx loop does   *)
(* not end on a feedback message.                                          *)
C23_DispatcherNeverFaults ==
  (\A i \in 1..Len(cfg) : cfg[i].data_number \in 0..127) =>
    /\ rx_pc = "read" => CurrentMapping.data_number \in 0..(TouchSlots - 1)
    /\ rx_pc = "motor" => CurrentMapping.data_number - 1 >= 0
    /\ rx_pc = "dead" => ~AtFeedback

(* C24: a motor move comes only from a PitchBend mapping: where the first  *)
(* mapping whose address is a prefix of a float-carrying message is a      *)
(* NoteOn or ControlChange mapping, the dispatcher does not take its       *)
(* number as a fader number (no TouchState lookup, no motor channel), and  *)
(* the message ends with no MIDI output and no FaderUpdate.                *)
C24_MotorOnlyFromPitchBend ==
  /\ rx_pc \in {"read", "motor", "fader"} => CurrentMapping.event_type = "PitchBend"
  /\ \A k \in 1..Len(rx_in) :
       /\ rx_in[k].msg # <<>>
       /\ ~is_name(rx_in[k].msg[1].addr)
       /\ resolve_feedback(cfg, rx_in[k].msg[1].addr) # 0
       /\ has_float(rx_in[k].msg[1])
       /\ LeafMapping(k).event_type \in {"NoteOn", "ControlChange"}
       => /\ rx_in[k].midi = <<>>
          /\ ~HasFaderUpdate(rx_in[k])
          /\ rx_in[k].touched = "unread"

(* The heartbeat tasks that are alive. *)
AliveHeartbeats == { i \in 1..Len(hb) : HbAlive(i) }

(* C25: across starts and stops of the bridge at most one heartbeat task   *)
(* is alive at a time, and none is alive while the bridge is stopped.      *)
C25_AtMostOneHeartbeat ==
  /\ Cardinality(AliveHeartbeats) <= 1
  /\ ~is_running /\ bridge = "idle" => AliveHeartbeats = {}

====
